---------------------------- MODULE Spec2Model ----------------------------
(***************************************************************************)
(* Model of pdf_markdown_converter:                                        *)
(*   image_handler.py  ImageHandler.find_image_start / process_image       *)
(*   processor.py      PDFProcessor.process_pdf / process_batch            *)
(*   utils.py          sanitize_filename                                   *)
(*                                                                         *)
(* Bytes are integers 0..255, byte strings and text strings are sequences  *)
(* (text: sequences of one-character strings).  Python's None is the empty *)
(* tuple and a present value x is <<x>>, so that "is None" is decidable on *)
(* every value.  Wall-clock values (processing_time, total_time) and the   *)
(* console output are left out: no claim reads them.                       *)
(***************************************************************************)
EXTENDS Integers, Sequences, FiniteSets, TLC

VARIABLES
    data,               \* find_image_start: the byte buffer passed in
    found,              \* find_image_start: the pair returned (<<>> before the call)
    output_format,      \* ImageHandler.output_format
    img_call,           \* arguments and environment faults of the last process_image call
    img_out,            \* what that call did: raised?, result record, files written
    client,             \* PDFProcessor.client: the responses the OCR service may give
    pdf_files,          \* process_batch: the input sequence of paths
    pc,                 \* control position
    i,                  \* process_batch: 1-based index of the current file
    pdf_output_dir,     \* process_pdf local (<<>> before it is assigned)
    ocr_pages,          \* process_pdf: result.pages
    p,                  \* process_pdf: number of pages already iterated
    k,                  \* process_pdf: number of images of the current page already iterated
    total_images,       \* process_pdf local
    successful_images,  \* process_pdf local
    failed_images,      \* process_pdf local
    md,                 \* process_pdf: image links appended to the current page's markdown
    markdown_pages,     \* process_pdf local
    summary,            \* process_pdf: the dict returned (<<>> while running)
    results,            \* process_batch local
    log,                \* process_batch: calls, returns and sleeps in the order they happen
    md_files,           \* file system: combined markdown files, each with the batch index that wrote it last
    raised_at,          \* where an exception left process_batch ("" when none did)
    batch_summary       \* process_batch: the dict returned (<<>> before)

vars == <<data, found, output_format, img_call, img_out, client, pdf_files, pc, i,
          pdf_output_dir, ocr_pages, p, k, total_images, successful_images, failed_images, md,
          markdown_pages, summary, results, log, md_files, raised_at, batch_summary>>

sigVars == <<data, found>>
imgVars == <<output_format, img_call, img_out>>
pdfVars == <<client, pdf_files, i, pdf_output_dir, ocr_pages, p, k, total_images, successful_images,
             failed_images, md, markdown_pages, summary>>
batchVars == <<results, log, md_files, raised_at, batch_summary>>

None == <<>>
Some(x) == <<x>>

(***************************************************************************)
(* Bounds                                                                  *)
(***************************************************************************)
MaxChunks == 3          \* find_image_start buffers: number of chunks concatenated
MaxImgChunks == 2       \* process_image buffers: number of chunks concatenated
MaxPages == 2           \* pages of one OCR response (single-file runs)
MaxImages == 2          \* images of one page (single-file runs)
MaxFiles == 2           \* paths of one batch

(***************************************************************************)
(* Byte strings                                                            *)
(***************************************************************************)
JPEG == <<255, 216, 255>>                       \* b'\xff\xd8\xff'
PNG == <<137, 80, 78, 71, 13, 10, 26, 10>>      \* b'\x89PNG\r\n\x1a\n'
GIF == <<71, 73, 70, 56>>                       \* b'GIF8'

\* Python's data[a:b] with 0 <= a (0-based, end exclusive, clipped to the buffer).
Slice(s, a, b) ==
    LET e == IF b < Len(s) THEN b ELSE Len(s)
    IN  IF a >= e THEN <<>> ELSE SubSeq(s, a + 1, e)

\* Python's data[a:].
SliceFrom(s, a) == Slice(s, a, Len(s))

RECURSIVE FindFrom(_, _, _)
FindFrom(s, sub, n) ==
    IF n + Len(sub) > Len(s) THEN -1
    ELSE IF Slice(s, n, n + Len(sub)) = sub THEN n
    ELSE FindFrom(s, sub, n + 1)

\* bytes.find(sub): the lowest index where sub occurs, -1 when it does not.
Find(s, sub) == FindFrom(s, sub, 0)

RECURSIVE Flatten(_)
Flatten(ss) == IF ss = <<>> THEN <<>> ELSE Head(ss) \o Flatten(Tail(ss))

SeqsUpTo(S, n) == UNION {[1..m -> S] : m \in 0..n}

\* The pieces test buffers are built from: junk bytes, bytes that begin a
\* signature, whole signatures and signatures cut one byte short.
Chunks == {<<0>>, <<255>>, <<216>>, <<56>>, <<255, 216>>, JPEG, PNG, GIF,
           SubSeq(PNG, 1, 7), SubSeq(GIF, 1, 3)}

Buffers(n) == {Flatten(cs) : cs \in SeqsUpTo(Chunks, n)}

(***************************************************************************)
(* ImageHandler.find_image_start                                           *)
(***************************************************************************)
\* Mutant: the scan stops one position early (range(len(data) - 3)).
JpegScanLimit_Short(s) == Len(s) - 3

\* range(len(data) - 2): the positions the JPEG loop visits are 0 .. limit-1.
JpegScanLimit(s) == Len(s) - 2

RECURSIVE JpegScan(_, _)
JpegScan(s, n) ==
    IF n >= JpegScanLimit(s) THEN None
    ELSE IF Slice(s, n, n + 3) = JPEG THEN Some(n)
    ELSE JpegScan(s, n + 1)

\* pos is not None and pos >= 0
IsValidStart(c) == c[1] # None /\ c[1][1] >= 0

\* Mutant: the first valid candidate wins instead of the earliest.
MinByPos_First(cs) == Head(cs)

RECURSIVE MinByPos(_)
\* min(valid_starts, key=lambda x: x[0]): the first element with the least key.
MinByPos(cs) ==
    IF Len(cs) = 1 THEN Head(cs)
    ELSE LET m == MinByPos(Tail(cs))
         IN  IF Head(cs)[1][1] <= m[1][1] THEN Head(cs) ELSE m

find_image_start(s) ==
    LET jpeg_start == JpegScan(s, 0)
        png_start == Find(s, PNG)
        gif_start == Find(s, GIF)
        cands == << <<jpeg_start, "jpg">>, <<Some(png_start), "png">>,
                    <<Some(gif_start), "gif">> >>
        valid_starts == SelectSeq(cands, IsValidStart)
    IN  IF valid_starts # <<>>
        THEN LET m == MinByPos(valid_starts) IN <<m[1], Some(m[2])>>
        ELSE <<None, None>>


(***************************************************************************)
(* ImageHandler.process_image                                              *)
(*                                                                         *)
(* A base64 string is [ok, bytes]: ok says whether base64.b64decode        *)
(* accepts it, bytes is what it decodes to.  The environment of one call   *)
(* is faults = [at, raw_write]: the library or file-system step that       *)
(* raises (if the call gets there), and whether the fallback write raises; *)
(* mode is the colour mode Pillow reports for the opened image.            *)
(* An image path is [dir, page, fig, raw, ext]; a written file is          *)
(* [path, content] with content <<"bytes", b>> or <<"image", fmt, mode>>.  *)
(***************************************************************************)
B64(b) == [ok |-> TRUE, bytes |-> b]
BadB64 == [ok |-> FALSE, bytes |-> <<>>]

FaultSites == {"none", "bin_write", "open", "convert", "save"}
Faults == [at : FaultSites, raw_write : BOOLEAN]
Modes == {"RGB", "RGBA"}
OutputFormats == {"original", "jpg", "png"}

ImagePath(dir, page_index, image_index, raw, ext) ==
    [dir |-> dir, page |-> page_index, fig |-> image_index, raw |-> raw, ext |-> ext]

\* The dicts process_image returns; a key the dict lacks is None here.
ImageResult(success, path, size, format, error) ==
    [success |-> success, path |-> path, size |-> size, format |-> format,
     error |-> error]

\* How a block of code ends: it returns a value, raises, or runs off its end.
\* bound is the set of local names assigned so far, locals their values.
Ended(kind, exc, exc_type, result, writes, bound, locals) ==
    [kind |-> kind, exc |-> exc, exc_type |-> exc_type, result |-> result,
     writes |-> writes, bound |-> bound, locals |-> locals]

NoLocals == [img_data |-> <<>>, img_start |-> None, img_format |-> None,
             clean_data |-> <<>>]

\* str.upper() on the three format names.
Upper(f) == CASE f = "jpg" -> "JPG" [] f = "png" -> "PNG" [] f = "gif" -> "GIF"

\* pil_img.save(img_path, ...): the format name handed to Pillow.
SaveFormat(final_format, img_format) ==
    IF final_format = "jpg" THEN "JPEG"
    ELSE IF final_format = "png" THEN "PNG"
    ELSE Upper(img_format)

\* Mutant: the dump is reported without its path.
BinResult_NoPath(img_path) ==
    ImageResult(FALSE, None, None, None, Some(<<"Could not identify image format">>))

\* The dict returned after the .bin dump.
BinResult(img_path) ==
    ImageResult(FALSE, Some(img_path), None, None,
                Some(<<"Could not identify image format">>))

\* The names bound, and their values, once find_image_start has returned.
LocatedLocals(img_data, st) ==
    [NoLocals EXCEPT !.img_data = img_data, !.img_start = st[1], !.img_format = st[2]]

LocatedBound == {"img_data", "img_start", "img_format"}

\* if img_start is None: the dump to page_P_figure_I.bin
BinDump(img_data, st, img_path, faults) ==
    IF faults.at = "bin_write"
    THEN Ended("raise", "bin write failed", "OSError", None, {}, LocatedBound,
               LocatedLocals(img_data, st))
    ELSE Ended("return", "", "", Some(BinResult(img_path)),
               {[path |-> img_path, content |-> <<"bytes", img_data>>]},
               LocatedBound, LocatedLocals(img_data, st))

\* if / elif / else on self.output_format
FinalFormat(fmt, img_format) ==
    IF fmt = "original" THEN img_format ELSE IF fmt = "jpg" THEN "jpg" ELSE "png"

\* pil_img.convert('RGB') is called in jpg mode for these colour modes.
Converts(fmt, mode) == fmt = "jpg" /\ mode \in {"RGBA", "LA", "P"}

\* clean_data onwards: Image.open, the output format, the path, the save.
\* <<1, 1>> stands for pil_img.size, whatever Pillow reports.
Reencode(locals, img_format, output_path, page_index, image_index, fmt, faults, mode) ==
    LET bound == LocatedBound \cup {"clean_data"}
        final_format == FinalFormat(fmt, img_format)
        img_path == ImagePath(output_path, page_index, image_index, FALSE, final_format)
    IN  IF faults.at = "open"
        THEN Ended("raise", "cannot identify image file", "UnidentifiedImageError",
                   None, {}, bound, locals)
        ELSE IF faults.at = "convert" /\ Converts(fmt, mode)
        THEN Ended("raise", "convert failed", "OSError", None, {}, bound, locals)
        ELSE IF faults.at = "save"
        THEN Ended("raise", "save failed", "OSError", None, {}, bound, locals)
        ELSE Ended("return", "", "",
                   Some(ImageResult(TRUE, Some(img_path), Some(<<1, 1>>),
                                    Some(final_format), None)),
                   {[path |-> img_path,
                     content |-> <<"image", SaveFormat(final_format, img_format),
                                   IF Converts(fmt, mode) THEN "RGB" ELSE mode>>]},
                   bound, locals)

\* The try block after find_image_start has returned st.
AfterLocate(img_data, st, output_path, page_index, image_index, fmt, faults, mode) ==
    IF st[1] = None
    THEN BinDump(img_data, st,
                 ImagePath(output_path, page_index, image_index, FALSE, "bin"), faults)
    ELSE Reencode([LocatedLocals(img_data, st) EXCEPT
                       !.clean_data = SliceFrom(img_data, st[1][1])],
                  st[2][1], output_path, page_index, image_index, fmt, faults, mode)

\* The body of the try block.
ProcessImageBody(image_base64, output_path, page_index, image_index, fmt, faults, mode) ==
    IF ~image_base64.ok
    THEN Ended("raise", "Incorrect padding", "binascii.Error", None, {}, {}, NoLocals)
    ELSE AfterLocate(image_base64.bytes, find_image_start(image_base64.bytes),
                     output_path, page_index, image_index, fmt, faults, mode)

\* Mutant: the fallback writes the whole decoded buffer, junk prefix included.
RawPayload_Whole(locals) == locals.img_data

\* f.write(clean_data)
RawPayload(locals) == locals.clean_data

\* The _raw path (reads img_format).
RawPath(locals, output_path, page_index, image_index) ==
    ImagePath(output_path, page_index, image_index, TRUE, locals.img_format[1])

\* The inner try block of the handler: reads img_start (unbound when the
\* failure came before its assignment), writes clean_data to the _raw file.
FallbackSave(e, body, output_path, page_index, image_index, faults) ==
    IF "img_start" \notin body.bound
    THEN Ended("raise", "img_start referenced before assignment", "UnboundLocalError",
               None, {}, body.bound, body.locals)
    ELSE IF body.locals.img_start = None
    THEN Ended("end", "", "", None, {}, body.bound, body.locals)
    ELSE IF "clean_data" \notin body.bound
    THEN Ended("raise", "clean_data referenced before assignment", "UnboundLocalError",
               None, {}, body.bound, body.locals)
    ELSE IF faults.raw_write
    THEN Ended("raise", "raw write failed", "OSError", None, {}, body.bound, body.locals)
    ELSE Ended("return", "", "",
               Some(ImageResult(FALSE,
                        Some(RawPath(body.locals, output_path, page_index, image_index)),
                        None, None,
                        Some(<<"Pillow processing failed: ", e, ", saved raw data">>))),
               {[path |-> RawPath(body.locals, output_path, page_index, image_index),
                 content |-> <<"bytes", RawPayload(body.locals)>>]},
               body.bound, body.locals)

\* Mutant: "except OSError:" in place of the bare except.
InnerCatches_OSError(exc_type) == exc_type = "OSError"

\* The bare "except:" of the inner try catches whatever was raised.
InnerCatches(exc_type) == TRUE

Outcome(raised, exc, result, writes, cause, inner) ==
    [raised |-> raised, exc |-> exc, result |-> result, writes |-> writes,
     cause |-> cause, inner |-> inner]

\* The except clause once its inner try block has ended as fb: the inner
\* except swallows what it catches, and the last return follows.
AfterFallback(e, fb) ==
    IF fb.kind = "return"
    THEN Outcome(FALSE, "", fb.result, fb.writes, e, "return")
    ELSE IF fb.kind = "raise" /\ ~InnerCatches(fb.exc_type)
    THEN Outcome(TRUE, fb.exc, None, {}, e, fb.exc)
    ELSE Outcome(FALSE, "", Some(ImageResult(FALSE, None, None, None, Some(<<e>>))),
                 {}, e, IF fb.kind = "raise" THEN fb.exc ELSE "end")

\* The call once the try block has ended as body.
AfterBody(body, output_path, page_index, image_index, faults) ==
    IF body.kind = "return"
    THEN Outcome(FALSE, "", body.result, body.writes, "", "")
    ELSE AfterFallback(body.exc,
                       FallbackSave(body.exc, body, output_path, page_index,
                                    image_index, faults))

\* What one call does: whether an exception left it (and which), the dict it
\* returned, the files it wrote, cause: the message of the exception the try
\* block raised ("" when it raised none), and inner: how the inner try block of
\* the handler ended ("" not entered, "return", "end" when it ran off its end
\* without writing, else the message of the exception it raised).
process_image(image_base64, output_path, page_index, image_index, fmt, faults, mode) ==
    AfterBody(ProcessImageBody(image_base64, output_path, page_index, image_index,
                               fmt, faults, mode),
              output_path, page_index, image_index, faults)

NoCall == [image_base64 |-> BadB64, output_path |-> <<>>, page_index |-> 0,
           image_index |-> 0]
NoOut == Outcome(FALSE, "", None, {}, "", "")

(***************************************************************************)
(* utils.sanitize_filename                                                 *)
(***************************************************************************)
RECURSIVE LastIndexOf(_, _, _)
\* str.rfind(c) over s[:n], as a 1-based position; 0 when c does not occur.
LastIndexOf(s, c, n) ==
    IF n = 0 THEN 0 ELSE IF s[n] = c THEN n ELSE LastIndexOf(s, c, n - 1)

\* Path(...).name: the final component of the path.
PathName(path) ==
    LET j == LastIndexOf(path, "/", Len(path))
    IN  SubSeq(path, j + 1, Len(path))

\* Path(...).stem: the name without its last suffix; a name that starts with
\* its only dot, or ends with a dot, has no suffix.
Stem(name) ==
    LET j == LastIndexOf(name, ".", Len(name))
    IN  IF 1 < j /\ j < Len(name) THEN SubSeq(name, 1, j - 1) ELSE name

SafeChars ==
    {"a", "b", "c", "d", "e", "f", "g", "h", "i", "j", "k", "l", "m", "n", "o", "p",
     "q", "r", "s", "t", "u", "v", "w", "x", "y", "z",
     "A", "B", "C", "D", "E", "F", "G", "H", "I", "J", "K", "L", "M", "N", "O", "P",
     "Q", "R", "S", "T", "U", "V", "W", "X", "Y", "Z",
     "0", "1", "2", "3", "4", "5", "6", "7", "8", "9", "-", "_", ".", " "}

TruncateAt == 50

RECURSIVE Strip(_)
\* str.strip(): leading and trailing whitespace removed.
Strip(s) ==
    IF s = <<>> THEN s
    ELSE IF Head(s) = " " THEN Strip(Tail(s))
    ELSE IF s[Len(s)] = " " THEN Strip(SubSeq(s, 1, Len(s) - 1))
    ELSE s

sanitize_filename(filename) ==
    LET name == Stem(PathName(filename))
        sanitized == [j \in 1..Len(name) |->
                          IF name[j] \in SafeChars THEN name[j] ELSE "_"]
    IN  Strip(Slice(sanitized, 0, TruncateAt))

(***************************************************************************)
(* The OCR service's responses                                             *)
(*                                                                         *)
(* A page is [index, images], an image [image_base64], None when the       *)
(* service sent no data for it.  client = [max_pages, max_images] bounds   *)
(* the responses of a run: at most max_pages pages holding at most         *)
(* max_images images altogether.                                           *)
(***************************************************************************)
ImgNoData == [image_base64 |-> None]
ImgBadB64 == [image_base64 |-> Some(BadB64)]
ImgNoSig == [image_base64 |-> Some(B64(<<0, 255, 216>>))]
ImgPng == [image_base64 |-> Some(B64(<<0>> \o PNG))]
ImageKinds == {ImgNoData, ImgBadB64, ImgNoSig, ImgPng}

RECURSIVE ImageLists(_, _)
\* Every way to give each of n pages a list of images, budget images in all.
ImageLists(n, budget) ==
    IF n = 0 THEN {<<>>}
    ELSE UNION {{<<im>> \o rest : rest \in ImageLists(n - 1, budget - Len(im))} :
                    im \in SeqsUpTo(ImageKinds, budget)}

MkPages(lists) == [j \in 1..Len(lists) |-> [index |-> j - 1, images |-> lists[j]]]

Responses(c) ==
    {MkPages(ls) : ls \in UNION {ImageLists(n, c.max_images) : n \in 0..c.max_pages}}

\* Batch runs keep the service to one page with one image.
BatchClient == [max_pages |-> 1, max_images |-> 1]

(***************************************************************************)
(* PDFProcessor.process_pdf                                                *)
(***************************************************************************)
OutputDir == <<"o", "u", "t">>

\* pdf_output_dir = output_dir / safe_name
PdfOutputDir(pdf_path) == [base |-> OutputDir, name |-> sanitize_filename(PathName(pdf_path))]

Summary(pdf_path, dir, pages, total, successful, failed, success, error) ==
    [pdf_name |-> PathName(pdf_path), pages |-> pages, total_images |-> total,
     successful_images |-> successful, failed_images |-> failed,
     output_dir |-> dir, success |-> success, error |-> error]

\* The dict built by the except clause.
error_summary(pdf_path, dir, e) == Summary(pdf_path, dir, 0, 0, 0, 0, FALSE, Some(e))

\* Mutant: an image that failed without leaving a file is not counted as failed.
CountImage_SkipsLost(result_info, c) ==
    IF result_info.success
    THEN [total |-> c.total + 1, successful |-> c.successful + 1, failed |-> c.failed]
    ELSE IF result_info.path = None
    THEN [total |-> c.total + 1, successful |-> c.successful, failed |-> c.failed]
    ELSE [total |-> c.total + 1, successful |-> c.successful, failed |-> c.failed + 1]

\* total_images += 1, then successful_images or failed_images += 1.
CountImage(result_info, c) ==
    IF result_info.success
    THEN [total |-> c.total + 1, successful |-> c.successful + 1, failed |-> c.failed]
    ELSE [total |-> c.total + 1, successful |-> c.successful, failed |-> c.failed + 1]

\* if result_info['path']: md += the image link
LinkImage(result_info, links) ==
    IF result_info.path # None THEN Append(links, result_info.path[1]) ELSE links

CurrentPath == pdf_files[i]

\* The image the inner loop is about to visit.
NextImage == ocr_pages[p + 1].images[k + 1]

Counters == [total |-> total_images, successful |-> successful_images,
             failed |-> failed_images]

PdfLocalsReset ==
    /\ pdf_output_dir' = None
    /\ ocr_pages' = <<>>
    /\ p' = 0
    /\ k' = 0
    /\ total_images' = 0
    /\ successful_images' = 0
    /\ failed_images' = 0
    /\ md' = <<>>
    /\ markdown_pages' = <<>>
    /\ img_call' = NoCall
    /\ img_out' = NoOut

\* Path(pdf_path), pdf_path.stat(), sanitize_filename, mkdir: all before the try.
PdfEnter ==
    /\ pc = "pdf_enter"
    /\ \E stat_ok \in BOOLEAN, mkdir_ok \in BOOLEAN :
          IF stat_ok /\ mkdir_ok
          THEN /\ pc' = "pdf_encode"
               /\ pdf_output_dir' = Some(PdfOutputDir(CurrentPath))
               /\ raised_at' = raised_at
          ELSE /\ pc' = "raised"
               /\ pdf_output_dir' = pdf_output_dir
               /\ raised_at' = "process_pdf"
    /\ UNCHANGED <<sigVars, imgVars, client, pdf_files, i, ocr_pages, p, k, total_images,
                   successful_images, failed_images, md, markdown_pages, summary,
                   results, log, md_files, batch_summary>>

\* open(pdf_path, "rb"), read, b64encode: inside the try.
PdfEncode ==
    /\ pc = "pdf_encode"
    /\ \E read_ok \in BOOLEAN :
          IF read_ok
          THEN pc' = "pdf_ocr" /\ summary' = summary
          ELSE pc' = "pdf_returned" /\ summary' = Some(error_summary(CurrentPath, pdf_output_dir[1], "read failed"))
    /\ UNCHANGED <<sigVars, imgVars, client, pdf_files, i, pdf_output_dir, ocr_pages, p,
                   k, total_images, successful_images, failed_images, md,
                   markdown_pages, batchVars>>

\* self.client.ocr.process(...), then the counters are set to 0.
PdfOcr ==
    /\ pc = "pdf_ocr"
    /\ \E ocr_ok \in BOOLEAN, r \in Responses(client) :
          IF ocr_ok
          THEN /\ pc' = "pdf_pages"
               /\ ocr_pages' = r
               /\ summary' = summary
          ELSE /\ pc' = "pdf_returned"
               /\ ocr_pages' = ocr_pages
               /\ summary' = Some(error_summary(CurrentPath, pdf_output_dir[1], "ocr failed"))
    /\ p' = 0
    /\ k' = 0
    /\ total_images' = 0
    /\ successful_images' = 0
    /\ failed_images' = 0
    /\ md' = <<>>
    /\ markdown_pages' = <<>>
    /\ UNCHANGED <<sigVars, imgVars, client, pdf_files, i, pdf_output_dir, batchVars>>

\* The rest of the turn once process_image has ended as out: an exception
\* goes to the except clause of process_pdf, a result to the counters and the link.
PdfImageDone(call, out) ==
    /\ img_call' = call
    /\ img_out' = out
    /\ IF out.raised
       THEN /\ pc' = "pdf_returned"
            /\ summary' = Some(error_summary(CurrentPath, pdf_output_dir[1], out.exc))
            /\ UNCHANGED <<k, total_images, successful_images, failed_images, md>>
       ELSE /\ pc' = pc
            /\ summary' = summary
            /\ k' = k + 1
            /\ total_images' = CountImage(out.result[1], Counters).total
            /\ successful_images' = CountImage(out.result[1], Counters).successful
            /\ failed_images' = CountImage(out.result[1], Counters).failed
            /\ md' = LinkImage(out.result[1], md)

\* One turn of the inner loop: "continue" for an image without data, else
\* process_image, the counters and the link.
PdfImage ==
    /\ pc = "pdf_pages"
    /\ p < Len(ocr_pages)
    /\ k < Len(ocr_pages[p + 1].images)
    /\ IF NextImage.image_base64 = None
       THEN /\ k' = k + 1
            /\ UNCHANGED <<pc, img_call, img_out, total_images, successful_images,
                           failed_images, md, summary>>
       ELSE \E faults \in Faults, mode \in Modes :
              PdfImageDone(
                  [image_base64 |-> NextImage.image_base64[1],
                   output_path |-> pdf_output_dir[1],
                   page_index |-> ocr_pages[p + 1].index, image_index |-> k + 1],
                  process_image(NextImage.image_base64[1], pdf_output_dir[1],
                                ocr_pages[p + 1].index, k + 1, output_format, faults,
                                mode))
    /\ UNCHANGED <<sigVars, output_format, client, pdf_files, i, pdf_output_dir,
                   ocr_pages, p, markdown_pages, batchVars>>

\* The end of one turn of the outer loop: markdown_pages.append(...).
PdfPageEnd ==
    /\ pc = "pdf_pages"
    /\ p < Len(ocr_pages)
    /\ k = Len(ocr_pages[p + 1].images)
    /\ markdown_pages' = Append(markdown_pages, [index |-> ocr_pages[p + 1].index, links |-> md])
    /\ p' = p + 1
    /\ k' = 0
    /\ md' = <<>>
    /\ UNCHANGED <<sigVars, imgVars, client, pdf_files, i, pc, pdf_output_dir, ocr_pages,
                   total_images, successful_images, failed_images, summary, batchVars>>

\* The combined markdown file is written and the summary returned.
PdfWrite ==
    /\ pc = "pdf_pages"
    /\ p = Len(ocr_pages)
    /\ \E write_ok \in BOOLEAN :
          IF write_ok
          THEN /\ md_files' = {f \in md_files : f.path # pdf_output_dir[1]}
                                \cup {[path |-> pdf_output_dir[1], writer |-> i]}
               /\ summary' = Some(Summary(CurrentPath, pdf_output_dir[1],
                                          Len(ocr_pages), total_images,
                                          successful_images, failed_images, TRUE, None))
          ELSE /\ md_files' = md_files
               /\ summary' = Some(error_summary(CurrentPath, pdf_output_dir[1], "markdown write failed"))
    /\ pc' = "pdf_returned"
    /\ UNCHANGED <<sigVars, imgVars, client, pdf_files, i, pdf_output_dir, ocr_pages, p,
                   k, total_images, successful_images, failed_images, md,
                   markdown_pages, results, log, raised_at, batch_summary>>

(***************************************************************************)
(* PDFProcessor.process_batch                                              *)
(***************************************************************************)
IsSuccess(r) == r.success
IsFailure(r) == ~r.success

RECURSIVE SumPages(_)
SumPages(rs) == IF rs = <<>> THEN 0 ELSE Head(rs).pages + SumPages(Tail(rs))

RECURSIVE SumSuccessfulImages(_)
SumSuccessfulImages(rs) ==
    IF rs = <<>> THEN 0 ELSE Head(rs).successful_images + SumSuccessfulImages(Tail(rs))

RECURSIVE SumTotalImages(_)
SumTotalImages(rs) ==
    IF rs = <<>> THEN 0 ELSE Head(rs).total_images + SumTotalImages(Tail(rs))

\* Mutant: the per-file total_images are summed.
BatchTotalImages_AllImages(successful) == SumTotalImages(successful)

\* total_images = sum(r['successful_images'] for r in successful)
BatchTotalImages(successful) == SumSuccessfulImages(successful)

BatchSummary(rs) ==
    LET successful == SelectSeq(rs, IsSuccess)
        failed == SelectSeq(rs, IsFailure)
    IN  [total_files |-> Len(rs), successful |-> Len(successful),
         failed |-> Len(failed), total_pages |-> SumPages(successful),
         total_images |-> BatchTotalImages(successful), results |-> rs]

\* output_dir.mkdir(...), results = []
BatchStart ==
    /\ pc = "batch_start"
    /\ \E mkdir_ok \in BOOLEAN :
          IF mkdir_ok
          THEN /\ pc' = IF Len(pdf_files) = 0 THEN "summarize" ELSE "call"
               /\ i' = IF Len(pdf_files) = 0 THEN 0 ELSE 1
               /\ raised_at' = raised_at
          ELSE /\ pc' = "raised"
               /\ i' = i
               /\ raised_at' = "batch_mkdir"
    /\ results' = <<>>
    /\ UNCHANGED <<sigVars, imgVars, client, pdf_files, pdf_output_dir, ocr_pages, p, k,
                   total_images, successful_images, failed_images, md, markdown_pages,
                   summary, log, md_files, batch_summary>>

\* result = self.process_pdf(pdf_path, output_dir): the call
BatchCall ==
    /\ pc = "call"
    /\ pc' = "pdf_enter"
    /\ log' = Append(log, <<"call", i>>)
    /\ UNCHANGED <<sigVars, imgVars, pdfVars, results, md_files, raised_at, batch_summary>>

\* The call returns: results.append(result), then the test for the delay.
BatchAppend ==
    /\ pc = "pdf_returned"
    /\ results' = Append(results, summary[1])
    /\ log' = Append(log, <<"return", i>>)
    /\ pc' = IF i < Len(pdf_files) THEN "sleep" ELSE "summarize"
    /\ i' = i
    /\ summary' = None
    /\ PdfLocalsReset
    /\ UNCHANGED <<sigVars, output_format, client, pdf_files, md_files, raised_at,
                   batch_summary>>

\* time.sleep(delay), then the next turn of the loop
Sleep ==
    /\ pc = "sleep"
    /\ log' = Append(log, <<"sleep", i>>)
    /\ pc' = "call"
    /\ i' = i + 1
    /\ UNCHANGED <<sigVars, imgVars, client, pdf_files, pdf_output_dir, ocr_pages, p, k,
                   total_images, successful_images, failed_images, md, markdown_pages,
                   summary, results, md_files, raised_at, batch_summary>>

\* The aggregate counts, BATCH_SUMMARY.md, and the dict returned.
BatchSummarize ==
    /\ pc = "summarize"
    /\ \E write_ok \in BOOLEAN :
          IF write_ok
          THEN /\ pc' = "done"
               /\ batch_summary' = Some(BatchSummary(results))
               /\ raised_at' = raised_at
          ELSE /\ pc' = "raised"
               /\ batch_summary' = batch_summary
               /\ raised_at' = "summary_write"
    /\ UNCHANGED <<sigVars, imgVars, pdfVars, results, log, md_files>>

(***************************************************************************)
(* Calls of the two ImageHandler methods on their own                      *)
(***************************************************************************)
FindImageStart ==
    /\ pc = "sig_call"
    /\ found' = find_image_start(data)
    /\ pc' = "sig_done"
    /\ UNCHANGED <<data, imgVars, pdfVars, batchVars>>

ProcessImage ==
    /\ pc = "img_call"
    /\ \E faults \in Faults, mode \in Modes :
          img_out' = process_image(img_call.image_base64, img_call.output_path,
                                   img_call.page_index, img_call.image_index,
                                   output_format, faults, mode)
    /\ pc' = "img_done"
    /\ UNCHANGED <<sigVars, output_format, img_call, pdfVars, batchVars>>

(***************************************************************************)
(* Initial states and specifications                                       *)
(***************************************************************************)
Txt_a_pdf == <<"a", ".", "p", "d", "f">>
Txt_d_a_pdf == <<"d", "/", "a", ".", "p", "d", "f">>
Txt_q_pdf == <<"a", "?", ".", "p", "d", "f">>
Txt_b_pdf == <<"b", ".", "p", "d", "f">>
Txt_long1 == [j \in 1..TruncateAt |-> "c"] \o <<"1", ".", "p", "d", "f">>

\* The paths batches are drawn from.
Paths == {Txt_a_pdf, Txt_d_a_pdf, Txt_b_pdf}

\* The paths single calls of process_pdf are drawn from.
PdfPaths == {Txt_q_pdf, Txt_long1}

IdleSig == data = <<>> /\ found = None
IdleImg == img_call = NoCall /\ img_out = NoOut
IdlePdf ==
    /\ pdf_output_dir = None
    /\ ocr_pages = <<>>
    /\ p = 0
    /\ k = 0
    /\ total_images = 0
    /\ successful_images = 0
    /\ failed_images = 0
    /\ md = <<>>
    /\ markdown_pages = <<>>
    /\ summary = None
IdleBatch ==
    /\ results = <<>>
    /\ log = <<>>
    /\ md_files = {}
    /\ raised_at = ""
    /\ batch_summary = None

\* process_batch(pdf_files, output_dir, delay) on a PDFProcessor built with the
\* default output_format.
Init ==
    /\ pdf_files \in SeqsUpTo(Paths, MaxFiles)
    /\ output_format = "original"
    /\ client = BatchClient
    /\ pc = "batch_start"
    /\ i = 0
    /\ IdleSig /\ IdleImg /\ IdlePdf /\ IdleBatch

Next ==
    \/ BatchStart
    \/ BatchCall
    \/ PdfEnter
    \/ PdfEncode
    \/ PdfOcr
    \/ PdfImage
    \/ PdfPageEnd
    \/ PdfWrite
    \/ BatchAppend
    \/ Sleep
    \/ BatchSummarize

Spec == Init /\ [][Next]_vars

\* process_pdf(pdf_path, output_dir) called once.
InitPdf ==
    /\ pdf_files \in {<<path>> : path \in PdfPaths}
    /\ output_format \in OutputFormats
    /\ client = [max_pages |-> MaxPages, max_images |-> MaxImages]
    /\ pc = "pdf_enter"
    /\ i = 1
    /\ IdleSig /\ IdleImg /\ IdlePdf /\ IdleBatch

NextPdf ==
    \/ PdfEnter
    \/ PdfEncode
    \/ PdfOcr
    \/ PdfImage
    \/ PdfPageEnd
    \/ PdfWrite

SpecPdf == InitPdf /\ [][NextPdf]_vars

\* process_image(image_base64, output_path, page_index, image_index) called once.
InitImg ==
    /\ img_call \in [image_base64 : {BadB64} \cup {B64(b) : b \in Buffers(MaxImgChunks)},
                     output_path : {PdfOutputDir(Txt_a_pdf)},
                     page_index : {0}, image_index : {1}]
    /\ img_out = NoOut
    /\ output_format \in OutputFormats
    /\ client = BatchClient
    /\ pdf_files = <<>>
    /\ pc = "img_call"
    /\ i = 0
    /\ IdleSig /\ IdlePdf /\ IdleBatch

NextImg == ProcessImage

SpecImg == InitImg /\ [][NextImg]_vars

\* find_image_start(data) called once.
InitSig ==
    /\ data \in Buffers(MaxChunks)
    /\ found = None
    /\ output_format = "original"
    /\ client = BatchClient
    /\ pdf_files = <<>>
    /\ pc = "sig_call"
    /\ i = 0
    /\ IdleImg /\ IdlePdf /\ IdleBatch

NextSig == FindImageStart

SpecSig == InitSig /\ [][NextSig]_vars

(***************************************************************************)
(* Properties                                                              *)
(*                                                                         *)
(* The signatures are located here by quantifying over offsets, not by     *)
(* the scans of find_image_start.                                          *)
(***************************************************************************)
OccursAt(s, sig, n) ==
    /\ n + Len(sig) <= Len(s)
    /\ \A j \in 1..Len(sig) : s[n + j] = sig[j]

SigOffsets(s) ==
    {n \in 0..Len(s) : OccursAt(s, JPEG, n) \/ OccursAt(s, PNG, n) \/ OccursAt(s, GIF, n)}

FormatAt(s, n) ==
    IF OccursAt(s, JPEG, n) THEN "jpg" ELSE IF OccursAt(s, PNG, n) THEN "png" ELSE "gif"

EarliestOffset(s) == CHOOSE n \in SigOffsets(s) : \A m \in SigOffsets(s) : n <= m

\* C1: no exception leaves process_pdf: every call made by process_batch comes
\* back with a summary, so the batch is never left through process_pdf.
C1_NeverEscapes == ~(pc = "raised" /\ raised_at = "process_pdf")

RECURSIVE ExpectedLog(_)
ExpectedLog(n) ==
    IF n = 0 THEN <<>>
    ELSE IF n = 1 THEN << <<"call", 1>>, <<"return", 1>> >>
    ELSE ExpectedLog(n - 1) \o << <<"sleep", n - 1>>, <<"call", n>>, <<"return", n>> >>

LoopLeft == pc \in {"summarize", "done"} \/ raised_at \in {"process_pdf", "summary_write"}

\* C2: once the loop of process_batch is over, process_pdf has been called once
\* per path in input order, results holds one result per path in that order,
\* and a sleep lies between each return and the next call and nowhere else
\* (K-1 sleeps for K >= 1 paths, none for K = 0).
C2_SequentialOrdered ==
    LoopLeft =>
        /\ Len(results) = Len(pdf_files)
        /\ \A j \in 1..Len(results) : results[j].pdf_name = PathName(pdf_files[j])
        /\ log = ExpectedLog(Len(pdf_files))

\* The same for the runs in which no exception left process_pdf: it holds, so
\* C2 fails only through the escape of C1.
C2_WhenNothingEscapes ==
    (LoopLeft /\ raised_at # "process_pdf") =>
        /\ Len(results) = Len(pdf_files)
        /\ \A j \in 1..Len(results) : results[j].pdf_name = PathName(pdf_files[j])
        /\ log = ExpectedLog(Len(pdf_files))

\* C3: every summary process_pdf returns, on the success path and on the
\* failure path, has successful_images + failed_images = total_images.
C3_CountsAddUp ==
    summary # None =>
        summary[1].successful_images + summary[1].failed_images = summary[1].total_images

C3_Witness ==
    /\ summary # None
    /\ summary[1].success
    /\ summary[1].successful_images >= 1
    /\ summary[1].failed_images >= 1

RECURSIVE SumOver(_, _, _)
\* The sum of f over the entries of rs that are marked success.
SumOver(rs, f(_), n) ==
    IF n = 0 THEN 0
    ELSE (IF rs[n].success THEN f(rs[n]) ELSE 0) + SumOver(rs, f, n - 1)

ProcessedImages(r) == r.successful_images + r.failed_images
ExtractedImages(r) == r.successful_images

\* C4 as stated: the batch summary's total_images is the sum of
\* successful_images + failed_images over the results marked success.
C4_Original ==
    pc = "done" =>
        batch_summary[1].total_images = SumOver(results, ProcessedImages, Len(results))

\* C4 as amended: the batch summary's total_images is the sum of
\* successful_images alone over the results marked success.
C4_SuccessfulImagesOnly ==
    pc = "done" =>
        /\ batch_summary[1].results = results
        /\ batch_summary[1].total_images =
               SumOver(results, ExtractedImages, Len(results))

C4_Witness ==
    /\ pc = "done"
    /\ \E j \in 1..Len(results) : results[j].success /\ results[j].failed_images >= 1
    /\ \E j \in 1..Len(results) : results[j].success /\ results[j].successful_images >= 1

\* C5: find_image_start returns the smallest offset at which any of the three
\* signatures occurs, with the format of the signature there, and (None, None)
\* when no signature occurs in the buffer.
C5_EarliestSignature ==
    pc = "sig_done" =>
        IF SigOffsets(data) = {}
        THEN found = <<None, None>>
        ELSE found = <<Some(EarliestOffset(data)),
                       Some(FormatAt(data, EarliestOffset(data)))>>

C5_Witness ==
    /\ pc = "sig_done"
    /\ \E n \in SigOffsets(data), m \in SigOffsets(data) :
          /\ 0 < n
          /\ n < m
          /\ FormatAt(data, n) = "gif"
          /\ FormatAt(data, m) = "png"
          /\ found = <<Some(n), Some("gif")>>

\* C6 as stated: for a buffer made of N bytes of garbage (bytes that hold no
\* signature) followed by the JPEG marker, find_image_start returns (N, 'jpg').
C6_Original ==
    pc = "sig_done" =>
        \A n \in 0..Len(data) :
            (OccursAt(data, JPEG, n) /\ SigOffsets(SubSeq(data, 1, n)) = {})
                => found = <<Some(n), Some("jpg")>>

\* C6 as amended: when the JPEG marker occurs at offset N and no signature of
\* any of the three formats begins at an offset below N, find_image_start
\* returns (N, 'jpg').
C6_JpegAfterGarbage ==
    pc = "sig_done" =>
        \A n \in 0..Len(data) :
            (OccursAt(data, JPEG, n) /\ \A m \in SigOffsets(data) : n <= m)
                => found = <<Some(n), Some("jpg")>>

C6_Witness ==
    /\ pc = "sig_done"
    /\ \E n \in 2..Len(data) :
          /\ OccursAt(data, JPEG, n)
          /\ n + 3 = Len(data)
          /\ \A m \in SigOffsets(data) : n <= m
          /\ found = <<Some(n), Some("jpg")>>

\* C7: process_image never raises: every call returns a dict with a boolean
\* success, which is False whenever a step failed or no signature was found;
\* a base64 decode failure gives success False, path None and no file.
C7_NeverRaises ==
    pc = "img_done" =>
        /\ ~img_out.raised
        /\ img_out.result # None
        /\ img_out.result[1].success \in BOOLEAN
        /\ img_out.cause # "" => ~img_out.result[1].success
        /\ (img_call.image_base64.ok /\ SigOffsets(img_call.image_base64.bytes) = {})
               => ~img_out.result[1].success
        /\ ~img_call.image_base64.ok =>
               /\ ~img_out.result[1].success
               /\ img_out.result[1].path = None
               /\ img_out.writes = {}

C7_Witness ==
    /\ pc = "img_done"
    /\ ~img_call.image_base64.ok
    /\ img_out.inner = "img_start referenced before assignment"
    /\ ~img_out.raised
    /\ img_out.result[1].path = None

\* The inner loop of process_pdf is about to hand process_image an image whose
\* decoded bytes hold no signature.
NoSignatureNext ==
    /\ pc = "pdf_pages"
    /\ p < Len(ocr_pages)
    /\ k < Len(ocr_pages[p + 1].images)
    /\ NextImage.image_base64 # None
    /\ NextImage.image_base64[1].ok
    /\ SigOffsets(NextImage.image_base64[1].bytes) = {}

BinPathNext == ImagePath(pdf_output_dir[1], ocr_pages[p + 1].index, k + 1, FALSE, "bin")

\* The decoded bytes went unchanged to the .bin file, nothing else was written,
\* and the dict names that path and the error.
Dumped ==
    /\ ~img_out'.raised
    /\ img_out'.cause = ""
    /\ img_out'.writes = {[path |-> BinPathNext,
                           content |-> <<"bytes", NextImage.image_base64[1].bytes>>]}
    /\ img_out'.result = Some(ImageResult(FALSE, Some(BinPathNext), None, None,
                                          Some(<<"Could not identify image format">>)))

\* The write of the .bin file raised: no path, the error is that exception's.
DumpFailed ==
    /\ ~img_out'.raised
    /\ img_out'.cause = "bin write failed"
    /\ \A f \in img_out'.writes : f.path = BinPathNext
    /\ img_out'.result = Some(ImageResult(FALSE, None, None, None,
                                          Some(<<"bin write failed">>)))

\* process_pdf counts the image as failed and goes on with the next image.
CountedAsFailed ==
    /\ total_images' = total_images + 1
    /\ failed_images' = failed_images + 1
    /\ successful_images' = successful_images
    /\ pc' = "pdf_pages"
    /\ ocr_pages' = ocr_pages
    /\ p' = p
    /\ k' = k + 1

RECURSIVE ImagesWithData(_)
ImagesWithData(pages) ==
    IF pages = <<>> THEN 0
    ELSE Cardinality({j \in 1..Len(Head(pages).images) :
                          Head(pages).images[j].image_base64 # None})
         + ImagesWithData(Tail(pages))

\* C8 as stated: for an image without a recognized signature process_image
\* writes the decoded bytes unchanged to page_P_figure_I.bin, writes nothing
\* else, returns success False with that path and 'Could not identify image
\* format', and process_pdf counts the image as failed and goes on.
C8_Original == [][NoSignatureNext => (Dumped /\ CountedAsFailed)]_vars

\* C8 as amended: the same when the write of the .bin file succeeds; when it
\* raises, process_image returns success False with path None and the
\* exception's message.  Either way no decode is attempted, process_pdf counts
\* the image as failed and goes on: a summary returned with success True
\* counts every image that came with data.
C8_BinDump ==
    /\ [][NoSignatureNext => ((Dumped \/ DumpFailed) /\ CountedAsFailed)]_vars
    /\ []((summary # None /\ summary[1].success)
              => summary[1].total_images = ImagesWithData(ocr_pages))

C8_Witness ==
    /\ pc = "pdf_pages"
    /\ p < Len(ocr_pages)
    /\ k < Len(ocr_pages[p + 1].images)
    /\ failed_images >= 1
    /\ img_out.result # None
    /\ img_out.result[1].path # None
    /\ img_out.result[1].path[1].ext = "bin"
    /\ \E f \in img_out.writes :
          f.path.ext = "bin" /\ f.content = <<"bytes", img_call.image_base64.bytes>>

\* C9: within one batch no two distinct input paths share an output
\* subdirectory, so the combined markdown file of one PDF is never overwritten
\* by the processing of a different PDF.
C9_OwnDirectory ==
    /\ \A a \in 1..Len(results), b \in 1..Len(results) :
          pdf_files[a] # pdf_files[b] => results[a].output_dir # results[b].output_dir
    /\ \A a \in 1..Len(results) :
          results[a].success =>
              \E f \in md_files :
                  f.path = results[a].output_dir /\ pdf_files[f.writer] = pdf_files[a]

\* The call had a signature to go on and its try block raised after locating it.
DecodeRaised ==
    /\ pc = "img_done"
    /\ img_call.image_base64.ok
    /\ SigOffsets(img_call.image_base64.bytes) # {}
    /\ img_out.cause # ""

RawPathExpected ==
    ImagePath(img_call.output_path, img_call.page_index, img_call.image_index, TRUE,
              FormatAt(img_call.image_base64.bytes,
                       EarliestOffset(img_call.image_base64.bytes)))

BytesFromOffset ==
    SubSeq(img_call.image_base64.bytes,
           EarliestOffset(img_call.image_base64.bytes) + 1,
           Len(img_call.image_base64.bytes))

\* C10: when a signature was located and the decode or the re-encode/save
\* raises, process_image writes the bytes from the located offset on, unchanged,
\* to page_P_figure_I_raw.<detected format> and returns success False with that
\* path and an error that embeds the exception's text; when that write fails
\* too it returns success False with path None.  The result is never success.
C10_RawFallback ==
    DecodeRaised =>
        /\ ~img_out.raised
        /\ img_out.result # None
        /\ ~img_out.result[1].success
        /\ img_out.cause \in {"cannot identify image file", "convert failed", "save failed"}
        /\ img_out.inner \in {"return", "raw write failed"}
        /\ img_out.inner = "return" =>
               /\ [path |-> RawPathExpected, content |-> <<"bytes", BytesFromOffset>>]
                      \in img_out.writes
               /\ \A f \in img_out.writes :
                      f.path = RawPathExpected => f.content = <<"bytes", BytesFromOffset>>
               /\ img_out.result[1].path = Some(RawPathExpected)
               /\ img_out.result[1].error =
                      Some(<<"Pillow processing failed: ", img_out.cause,
                             ", saved raw data">>)
        /\ img_out.inner = "raw write failed" =>
               /\ img_out.result[1].path = None
               /\ img_out.result[1].error = Some(<<img_out.cause>>)

C10_Witness ==
    /\ DecodeRaised
    /\ img_out.cause = "save failed"
    /\ img_out.inner = "return"
    /\ EarliestOffset(img_call.image_base64.bytes) > 0
    /\ img_out.result[1].path = Some(RawPathExpected)

=============================================================================
